---- MODULE Spec2Model ----
(***************************************************************************)
(* Model of the GoMode COD dashboard (src/app.py): load_data derives the   *)
(* per-record columns from the CSV, then the script renders its panels     *)
(* top to bottom.  An uncaught exception stops the script at that panel.   *)
(***************************************************************************)
EXTENDS Integers, Sequences, FiniteSets, TLC

VARIABLES csv, strNA, df, pc, rendered, kpis, hists, slow_orders, insights,
          wilaya_stats, top_returns, hub_delays, risk_df

vars == <<csv, strNA, df, pc, rendered, kpis, hists, slow_orders, insights,
          wilaya_stats, top_returns, hub_delays, risk_df>>

----------------------------------------------------------------------------
(* Program constants *)

TopN == 10
RiskMinOrders == 10
ProcThreshold == 1
DelayThreshold == 2
HoursPerDay == 24

(* Bounds of the model *)

MaxDateRows == 1
MaxStatusRows == 2
MaxKpiRows == 3
MaxTopRows == 11
MaxProducts == 11

----------------------------------------------------------------------------
(* Missing values.  NaT is the missing timestamp, NaN the missing number,  *)
(* None the missing text cell; NaFlag is the missing value of an object    *)
(* column of booleans.                                                     *)

NaT == -999999
NaN == -888888
None == "NaN"
NoText == <<"NaN">>
NaFlag == "NaN"
True == "True"
False == "False"

(* A mean is kept exact as <<sum, count>> over the non-missing values;     *)
(* count = 0 is the NaN mean of an empty or all-missing series.            *)
NanMean == <<0, 0>>
IsNanMean(m) == m[2] = 0
MeanGt(m, t) == m[2] > 0 /\ m[1] > t * m[2]
MeanGe(a, b) == a[1] * b[2] >= b[1] * a[2]

----------------------------------------------------------------------------
(* Cells of the CSV *)

Ts(d, h) == [txt |-> "ts", d |-> d, h |-> h]
NoDate == [txt |-> "", d |-> 0, h |-> 0]
BadDate == [txt |-> "n/a", d |-> 0, h |-> 0]

(* pd.to_datetime(errors='coerce'): an empty cell or a text that is not a  *)
(* date (also one with an hour outside 0..23) becomes NaT; a valid text is *)
(* the time in hours since the epoch.                                      *)
to_datetime(c) ==
    IF c.txt = "ts" /\ c.h \in 0..(HoursPerDay - 1) /\ c.d >= 0
    THEN c.d * HoursPerDay + c.h
    ELSE NaT

(* A day difference that fills the missing result with zero *)
dt_days_zero(a, b) ==
    IF a = NaT \/ b = NaT THEN 0 ELSE (a - b) \div HoursPerDay

(* (a - b).dt.days: the days component of the timedelta, i.e. the floor of *)
(* the difference in days; NaT on either side gives NaN.                   *)
dt_days(a, b) ==
    IF a = NaT \/ b = NaT THEN NaN ELSE (a - b) \div HoursPerDay

(* str.lower() on the characters the status texts use *)
LowerChar(c) ==
    CASE c = "L" -> "l"
      [] c = "I" -> "i"
      [] c = "V" -> "v"
      [] c = "R" -> "r"
      [] c = "E" -> "e"
      [] c = "T" -> "t"
      [] c = "O" -> "o"
      [] c = "U" -> "u"
      [] c = "É" -> "é"
      [] OTHER -> c

str_lower(s) ==
    IF s = NoText THEN NoText ELSE [i \in 1..Len(s) |-> LowerChar(s[i])]

TokDelivered == <<"l", "i", "v", "r", "é">>
TokReturned == <<"r", "e", "t", "o", "u", "r">>

(* str.contains(tok): substring search; a missing text gives the na value  *)
(* of the string dtype in use (NaN for object columns, False for the       *)
(* dedicated string dtype).                                                *)
str_contains(s, tok, na) ==
    IF s = NoText THEN na
    ELSE IF \E i \in 1..(Len(s) - Len(tok) + 1) :
               SubSeq(s, i, i + Len(tok) - 1) = tok
         THEN True ELSE False

fillna(v, d) == IF v = NaN THEN d ELSE v

(* Series.mask in place of Series.where: replaces where cond holds *)
where_swapped(v, cond, other) == IF cond = True THEN other ELSE v

(* Series.where(cond, 0): cond is filled with False where missing *)
where(v, cond, other) == IF cond = True THEN v ELSE other

----------------------------------------------------------------------------
(* Columns *)

ColCommande == "Date de commande"
ColProduct == "Nom de l'élément"
ColProductAlt == " nom de l<U+2019>élément "
ColTotalFulfil == "total_fulfillment_days"

BaseCols == {"order_id", "from_wilaya_name", "to_wilaya_name", "stopdesk_name",
             "last_status", "Montant total de la commande", "has_recouvrement",
             "date_creation", "date_expedition", "date_last_status",
             "Prix du produit", "declared_value"}

AllCols == BaseCols \cup {ColCommande, ColProduct}

(* re.sub(r"[<U+2019>']", "'", col.strip().lower()) == "nom de l'élément" *)
NormIsProduct(col) == col \in {ColProduct, ColProductAlt}

get_product_col(cols) ==
    IF \E c \in cols : NormIsProduct(c)
    THEN CHOOSE c \in cols : NormIsProduct(c)
    ELSE None

----------------------------------------------------------------------------
(* load_data *)

(* A fallback to the creation timestamp when the column is absent *)
commande_or_creation(r, cols) ==
    IF ColCommande \in cols THEN to_datetime(r.commande)
    ELSE to_datetime(r.date_creation)

(* lines 36-39: the order placement timestamp, NaT when the column is      *)
(* absent                                                                  *)
commande_of(r, cols) ==
    IF ColCommande \in cols THEN to_datetime(r.commande) ELSE NaT

(* lines 33-51, one record *)
load_row(r, cols, na) ==
    LET cre == to_datetime(r.date_creation)
        exp == to_datetime(r.date_expedition)
        lst == to_datetime(r.date_last_status)
        cmd == commande_of(r, cols)
        low == str_lower(r.last_status)
        dlv == str_contains(low, TokDelivered, na)
        ret == str_contains(low, TokReturned, na)
        rev == fillna(r.montant, 0)
    IN  [order_id |-> r.order_id,
         from_wilaya_name |-> r.from_wilaya_name,
         to_wilaya_name |-> r.to_wilaya_name,
         stopdesk_name |-> r.stopdesk_name,
         product |-> r.product,
         last_status |-> r.last_status,
         total_fulfillment_days |-> r.total_fulfillment_days,
         date_creation |-> cre,
         date_expedition |-> exp,
         date_last_status |-> lst,
         date_commande |-> cmd,
         commande_to_creation_days |-> dt_days(cre, cmd),
         commande_to_expedition_days |-> dt_days(exp, cmd),
         commande_to_last_status_days |-> dt_days(lst, cmd),
         delivered |-> dlv,
         returned |-> ret,
         delivery_delay_days |-> dt_days(lst, exp),
         processing_time_days |-> dt_days(exp, cre),
         revenue |-> rev,
         lost_revenue |-> where(rev, ret, 0),
         success_revenue |-> where(rev, dlv, 0),
         has_recouvrement |-> fillna(r.has_recouvrement, 0)]

(* A column with no text at all is read as float64, and .str raises on it *)
StrAccessorFails(rows) ==
    Len(rows) > 0 /\ \A i \in 1..Len(rows) : rows[i].last_status = NoText

----------------------------------------------------------------------------
(* Series and DataFrame helpers *)

Min(a, b) == IF a < b THEN a ELSE b

RECURSIVE SumSeq(_)
SumSeq(s) == IF s = <<>> THEN 0 ELSE Head(s) + SumSeq(Tail(s))

(* DataFrame.head(n) *)
head(s, n) == SubSeq(s, 1, Min(n, Len(s)))

IsNum(v) == v # NaN
IsFlag(v) == v # NaFlag

(* Series.dropna() of a numeric column *)
dropna(s) == SelectSeq(s, IsNum)

(* Series.mean() of a numeric column: missing values are skipped *)
mean(s) == <<SumSeq(dropna(s)), Len(dropna(s))>>

(* Series.mean() of a column of flags: True counts 1, False 0, and a       *)
(* missing flag is skipped                                                 *)
IsTrue(v) == v = True
flag_mean(s) == <<Len(SelectSeq(s, IsTrue)), Len(SelectSeq(s, IsFlag))>>

(* Series.count(): the number of non-missing cells of a text column *)
IsText(v) == v # None
count(s) == Len(SelectSeq(s, IsText))

Col(rows, F(_)) == [i \in 1..Len(rows) |-> F(rows[i])]

(* The distinct non-missing keys of a groupby, in sorted order (order is   *)
(* the position in the universe of names); rows with a missing key are in  *)
(* no group (dropna=True).                                                 *)
group_keys(keycol, order) ==
    LET present(k) == \E i \in 1..Len(keycol) : keycol[i] = k
    IN  SelectSeq(order, present)

(* sort_values(ascending=False) with the default kind='quicksort', which   *)
(* is not stable: the rows with a key come first by non-increasing key,    *)
(* rows of equal key in any order; rows whose key is missing come last in  *)
(* input order.  Keys are means <<sum, count>>.  The result is the set of  *)
(* orders (sequences of positions) the sort may produce.                   *)
RECURSIVE DescOrders(_, _)
DescOrders(S, key) ==
    IF S = {} THEN {<<>>}
    ELSE UNION {{<<i>> \o t : t \in DescOrders(S \ {i}, key)} :
                   i \in {j \in S : \A k \in S : MeanGe(key[j], key[k])}}

RECURSIVE AscIdx(_)
AscIdx(S) ==
    IF S = {} THEN <<>>
    ELSE LET m == CHOOSE i \in S : \A j \in S : i <= j
         IN  <<m>> \o AscIdx(S \ {m})

(* The table left in input order *)
sort_values_unsorted(key) == {AscIdx(1..Len(key))}

sort_values_desc(key) ==
    LET keyed == {i \in 1..Len(key) : ~IsNanMean(key[i])}
        nans == {i \in 1..Len(key) : IsNanMean(key[i])}
    IN  {p \o AscIdx(nans) : p \in DescOrders(keyed, key)}

(* The order a stable descending sort gives: ties in input order *)
RECURSIVE StableDesc(_, _)
StableDesc(S, key) ==
    IF S = {} THEN <<>>
    ELSE LET m == CHOOSE i \in S :
                     /\ \A k \in S : MeanGe(key[i], key[k])
                     /\ \A k \in S : MeanGe(key[k], key[i]) => i <= k
         IN  <<m>> \o StableDesc(S \ {m}, key)

stable_sort_desc(key) ==
    LET keyed == {i \in 1..Len(key) : ~IsNanMean(key[i])}
        nans == {i \in 1..Len(key) : IsNanMean(key[i])}
    IN  StableDesc(keyed, key) \o AscIdx(nans)

Take(rows, p) == [i \in 1..Len(p) |-> rows[p[i]]]

NumKey(v) == IF v = NaN THEN NanMean ELSE <<v, 1>>

----------------------------------------------------------------------------
(* Input tables *)

WilayaOrder == <<"Alger", "Oran">>
HubOrder == <<"Hub A", "Hub B">>
ProductOrder == <<"P01", "P02", "P03", "P04", "P05", "P06", "P07",
                  "P08", "P09", "P10", "P11", "P12", "P13">>
OrderIds == <<"o01", "o02", "o03", "o04", "o05", "o06", "o07",
              "o08", "o09", "o10", "o11", "o12", "o13">>

StLivre == <<"L", "i", "v", "r", "é">>
StLivreUpper == <<"L", "I", "V", "R", "É">>
StRetour == <<"R", "e", "t", "o", "u", "r">>
StEchec == <<"E", "c", "h", "e", "c", " ", "l", "i", "v", "r", "é", " ",
             "R", "E", "T", "O", "U", "R">>
StLivr == <<"L", "i", "v", "r">>
StEnCours == <<"E", "n">>
StEmpty == <<>>

StatusTexts == {StLivre, StLivreUpper, StRetour, StEchec, StLivr, StEnCours,
                StEmpty, NoText}

BaseRow ==
    [order_id |-> "o01", from_wilaya_name |-> "Alger",
     to_wilaya_name |-> "Oran", stopdesk_name |-> "Hub A",
     product |-> "P01", last_status |-> StLivre, montant |-> 500,
     has_recouvrement |-> 1, date_creation |-> NoDate,
     date_expedition |-> NoDate, date_last_status |-> NoDate,
     commande |-> NoDate, total_fulfillment_days |-> NaN]

SeqsUpTo(S, n) == UNION {[1..k -> S] : k \in 0..n}

Rep(r, n) == [i \in 1..n |-> r]

(* Tables that vary the four timestamps, with and without the order       *)
(* placement column                                                        *)
DateRows ==
    {[BaseRow EXCEPT !.date_creation = a, !.date_expedition = b,
                     !.date_last_status = c, !.commande = d] :
        a \in {NoDate, Ts(1, 6), Ts(1, 24)},
        b \in {BadDate, Ts(0, 0), Ts(3, 8)},
        c \in {NoDate, Ts(1, 6), Ts(6, 16)},
        d \in {NoDate, Ts(0, 0)}}

DateTables ==
    {[cols |-> c, rows |-> t] :
        c \in {AllCols, AllCols \ {ColCommande}},
        t \in SeqsUpTo(DateRows, MaxDateRows)}

(* Tables that vary the status text and the order total *)
StatusRows ==
    {[BaseRow EXCEPT !.last_status = s, !.montant = m] :
        s \in StatusTexts, m \in {NaN, 500}}

StatusTables ==
    {[cols |-> AllCols, rows |-> t] : t \in SeqsUpTo(StatusRows, MaxStatusRows)}

(* Tables that vary the status and the delivery delay *)
KpiRows ==
    {[BaseRow EXCEPT !.last_status = s, !.date_expedition = Ts(0, 0),
                     !.date_last_status = c] :
        s \in {StLivre, StRetour, NoText},
        c \in {Ts(1, 0), Ts(5, 0), NoDate}}

KpiTables ==
    {[cols |-> AllCols, rows |-> t] : t \in SeqsUpTo(KpiRows, MaxKpiRows)}

(* Tables of two runs of equal rows around the high-risk threshold, that   *)
(* vary the destination region, the order id and the status                *)
AggRows ==
    {[BaseRow EXCEPT !.to_wilaya_name = w, !.order_id = o, !.last_status = s] :
        w \in {"Alger", "Oran", None},
        o \in {"o01", None},
        s \in {StLivre, StRetour}}

RunLens == {1, RiskMinOrders, RiskMinOrders + 1}

AggTables ==
    {[cols |-> AllCols, rows |-> Rep(r1, n1) \o Rep(r2, n2)] :
        r1 \in AggRows, r2 \in AggRows, n1 \in RunLens, n2 \in RunLens}

(* Tables of n orders with distinct ids whose delays (or total             *)
(* fulfillment days) ascend or descend, with row t tied with its           *)
(* successor, or the last row's value missing when t = n                   *)
TopValue(n, dir, t, i) ==
    LET j == IF t > 0 /\ t < n /\ i = t THEN i + 1 ELSE i
    IN  IF t = n /\ i = n THEN NaN
        ELSE IF dir = "asc" THEN j ELSE n + 1 - j

TopRow(n, dir, t, i, byTotal) ==
    LET v == TopValue(n, dir, t, i)
    IN  [BaseRow EXCEPT !.order_id = OrderIds[i],
                        !.date_expedition = Ts(0, 0),
                        !.date_last_status =
                            IF v = NaN \/ byTotal THEN NoDate ELSE Ts(v, 0),
                        !.total_fulfillment_days =
                            IF byTotal THEN v ELSE NaN]

TopTables ==
    {[cols |-> IF byTotal THEN AllCols \cup {ColTotalFulfil} ELSE AllCols,
      rows |-> [i \in 1..n |-> TopRow(n, dir, t, i, byTotal)]] :
        n \in 0..MaxTopRows, dir \in {"asc", "desc"}, t \in 0..MaxTopRows,
        byTotal \in BOOLEAN}

(* Tables of returned orders where product i is ordered i times, with      *)
(* product t as often as its successor when t > 0                          *)
RECURSIVE Stair(_, _, _)
Stair(n, t, i) ==
    IF i > n THEN <<>>
    ELSE Rep([BaseRow EXCEPT !.product = ProductOrder[i],
                             !.last_status = StRetour],
             IF t > 0 /\ t < n /\ i = t THEN i + 1 ELSE i)
         \o Stair(n, t, i + 1)

StairTables ==
    {[cols |-> AllCols, rows |-> Stair(n, t, 1)] :
        n \in 0..MaxProducts, t \in 0..MaxProducts}

(* Tables where one column is absent, or the product column is spelled     *)
(* differently                                                             *)
ColRows ==
    <<[BaseRow EXCEPT !.date_creation = Ts(0, 0), !.date_expedition = Ts(1, 0),
                      !.date_last_status = Ts(2, 0), !.commande = Ts(0, 0)],
      [BaseRow EXCEPT !.order_id = "o02", !.stopdesk_name = "Hub B",
                      !.last_status = StRetour,
                      !.date_creation = Ts(0, 0), !.date_expedition = Ts(2, 0),
                      !.date_last_status = Ts(6, 0), !.commande = Ts(0, 0)]>>

IdCols == {"order_id", "from_wilaya_name", "to_wilaya_name", "stopdesk_name",
           ColProduct}

ColTables ==
    {[cols |-> c, rows |-> ColRows] :
        c \in {AllCols \ {x} : x \in IdCols \cup {"Prix du produit"}}
              \cup {(AllCols \ {ColProduct}) \cup {ColProductAlt}}
              \cup {AllCols \ {"order_id", ColCommande}}}

HasNoText(t) == \E i \in 1..Len(t.rows) : t.rows[i].last_status = NoText

----------------------------------------------------------------------------
(* The script *)

Panel(name, kind) == [panel |-> name, kind |-> kind]

NoKpis ==
    [total |-> 0, success_rate |-> NanMean, return_rate |-> NanMean,
     avg_delay |-> NanMean, avg_processing |-> NanMean,
     avg_cmd_expedition |-> NanMean, avg_cmd_last_status |-> NanMean,
     cod_revenue |-> 0, lost_revenue |-> 0, recouvrement_rate |-> NanMean]

Init ==
    /\ csv \in DateTables \cup StatusTables \cup KpiTables \cup AggTables
               \cup TopTables \cup StairTables \cup ColTables
    /\ strNA \in (IF HasNoText(csv) THEN {NaFlag, False} ELSE {NaFlag})
    /\ df = <<>>
    /\ pc = "load_data"
    /\ rendered = <<>>
    /\ kpis = NoKpis
    /\ hists = <<>>
    /\ slow_orders = <<>>
    /\ insights = <<>>
    /\ wilaya_stats = <<>>
    /\ top_returns = <<>>
    /\ hub_delays = <<>>
    /\ risk_df = <<>>

(* An uncaught exception: the script stops, the panels after it are not    *)
(* rendered                                                                *)
Raise(name) ==
    /\ pc' = "aborted"
    /\ rendered' = Append(rendered, Panel(name, "exception"))

(* lines 30-54 *)
load_data ==
    /\ pc = "load_data"
    /\ IF StrAccessorFails(csv.rows)
       THEN Raise("load_data") /\ UNCHANGED df
       ELSE /\ df' = [i \in 1..Len(csv.rows) |->
                         load_row(csv.rows[i], csv.cols, strNA)]
            /\ pc' = "global_kpis"
            /\ UNCHANGED rendered
    /\ UNCHANGED <<csv, strNA, kpis, hists, slow_orders, insights,
                   wilaya_stats, top_returns, hub_delays, risk_df>>

(* lines 63-76 *)
global_kpis ==
    /\ pc = "global_kpis"
    /\ kpis' = [kpis EXCEPT
          !.total = Len(df),
          !.success_rate = flag_mean(Col(df, LAMBDA r : r.delivered)),
          !.return_rate = flag_mean(Col(df, LAMBDA r : r.returned)),
          !.avg_delay = mean(Col(df, LAMBDA r : r.delivery_delay_days)),
          !.avg_processing = mean(Col(df, LAMBDA r : r.processing_time_days)),
          !.avg_cmd_expedition =
              mean(Col(df, LAMBDA r : r.commande_to_expedition_days)),
          !.avg_cmd_last_status =
              mean(Col(df, LAMBDA r : r.commande_to_last_status_days))]
    /\ rendered' = Append(rendered, Panel("Global KPIs", "metrics"))
    /\ pc' = "time_distributions"
    /\ UNCHANGED <<csv, strNA, df, hists, slow_orders, insights,
                   wilaya_stats, top_returns, hub_delays, risk_df>>

(* One histogram request: the chart of the non-missing values, or the      *)
(* notice when there are none                                              *)
Hist(col, data) ==
    [col |-> col, data |-> data,
     kind |-> IF data # <<>> THEN "chart" ELSE "warning"]

HistPanels(hs) == [i \in 1..Len(hs) |-> Panel(hs[i].col, hs[i].kind)]

(* lines 87-92: requests are de-duplicated by column name *)
RECURSIVE unique_time_cols(_, _)
unique_time_cols(reqs, seen) ==
    IF reqs = <<>> THEN <<>>
    ELSE IF Head(reqs).col \in seen
         THEN unique_time_cols(Tail(reqs), seen)
         ELSE <<Head(reqs)>>
              \o unique_time_cols(Tail(reqs), seen \cup {Head(reqs).col})

(* lines 80-86 *)
time_cols(d) ==
    <<Hist("processing_time_days",
           dropna(Col(d, LAMBDA r : r.processing_time_days))),
      Hist("delivery_delay_days",
           dropna(Col(d, LAMBDA r : r.delivery_delay_days))),
      Hist("commande_to_creation_days",
           dropna(Col(d, LAMBDA r : r.commande_to_creation_days))),
      Hist("commande_to_expedition_days",
           dropna(Col(d, LAMBDA r : r.commande_to_expedition_days))),
      Hist("commande_to_last_status_days",
           dropna(Col(d, LAMBDA r : r.commande_to_last_status_days)))>>

(* lines 78-98 *)
time_distributions ==
    /\ pc = "time_distributions"
    /\ hists' = unique_time_cols(time_cols(df), {})
    /\ rendered' = rendered \o HistPanels(hists')
    /\ pc' = "bottlenecks"
    /\ UNCHANGED <<csv, strNA, df, kpis, slow_orders, insights,
                   wilaya_stats, top_returns, hub_delays, risk_df>>

(* The ten first rows of the table sorted by a column, descending *)
top_by(d, F(_)) ==
    {head(Take(d, p), TopN) :
        p \in sort_values_desc(Col(d, LAMBDA r : NumKey(F(r))))}

(* lines 103-106 *)
slow_orders_1(d, cols) ==
    IF ColTotalFulfil \in cols
    THEN top_by(d, LAMBDA r : r.total_fulfillment_days)
    ELSE top_by(d, LAMBDA r : r.delivery_delay_days)

(* lines 100-116: the derived columns always exist, so the table is shown *)
bottlenecks ==
    /\ pc = "bottlenecks"
    /\ slow_orders' \in slow_orders_1(df, csv.cols)
    /\ rendered' = Append(rendered, Panel("Bottlenecks & Delays", "table"))
    /\ pc' = "insights"
    /\ UNCHANGED <<csv, strNA, df, kpis, hists, insights,
                   wilaya_stats, top_returns, hub_delays, risk_df>>

MsgProcessing == "Order processing is slow."
MsgShipping == "Shipping times are high."
MsgNone == "No major bottlenecks detected."

(* The advisories in the opposite order *)
compute_insights_swapped(d) ==
    LET a == IF MeanGt(mean(Col(d, LAMBDA r : r.delivery_delay_days)),
                       DelayThreshold)
             THEN <<MsgShipping>> ELSE <<>>
        b == IF MeanGt(mean(Col(d, LAMBDA r : r.processing_time_days)),
                       ProcThreshold)
             THEN a \o <<MsgProcessing>> ELSE a
    IN  IF b = <<>> THEN <<MsgNone>> ELSE b

(* lines 120-126 and 246-252 *)
compute_insights(d) ==
    LET a == IF MeanGt(mean(Col(d, LAMBDA r : r.processing_time_days)),
                       ProcThreshold)
             THEN <<MsgProcessing>> ELSE <<>>
        b == IF MeanGt(mean(Col(d, LAMBDA r : r.delivery_delay_days)),
                       DelayThreshold)
             THEN a \o <<MsgShipping>> ELSE a
    IN  IF b = <<>> THEN <<MsgNone>> ELSE b

(* lines 118-128 *)
insights_1 ==
    /\ pc = "insights"
    /\ insights' = compute_insights(df)
    /\ rendered' = Append(rendered, Panel("Insights", "text"))
    /\ pc' = "revenue_kpis"
    /\ UNCHANGED <<csv, strNA, df, kpis, hists, slow_orders,
                   wilaya_stats, top_returns, hub_delays, risk_df>>

(* lines 130-135 *)
revenue_kpis ==
    /\ pc = "revenue_kpis"
    /\ kpis' = [kpis EXCEPT
          !.cod_revenue = SumSeq(Col(df, LAMBDA r : r.success_revenue)),
          !.lost_revenue = SumSeq(Col(df, LAMBDA r : r.lost_revenue)),
          !.recouvrement_rate = mean(Col(df, LAMBDA r : r.has_recouvrement))]
    /\ rendered' = Append(rendered, Panel("COD Revenue", "metrics"))
    /\ pc' = "orders_by_wilaya"
    /\ UNCHANGED <<csv, strNA, df, hists, slow_orders, insights,
                   wilaya_stats, top_returns, hub_delays, risk_df>>

(* The rows of one group *)
group_rows(d, K(_), k) == SelectSeq(d, LAMBDA r : K(r) = k)

(* lines 139-143: one row per destination region *)
wilaya_agg(d) ==
    LET keys == group_keys(Col(d, LAMBDA r : r.to_wilaya_name), WilayaOrder)
    IN  [i \in 1..Len(keys) |->
            LET g == group_rows(d, LAMBDA r : r.to_wilaya_name, keys[i])
            IN  [to_wilaya_name |-> keys[i],
                 orders |-> count(Col(g, LAMBDA r : r.order_id)),
                 revenue |-> SumSeq(Col(g, LAMBDA r : r.success_revenue)),
                 return_rate |-> flag_mean(Col(g, LAMBDA r : r.returned))]]

(* lines 137-150: groupby raises KeyError on an absent column *)
orders_by_wilaya ==
    /\ pc = "orders_by_wilaya"
    /\ IF {"to_wilaya_name", "order_id"} \subseteq csv.cols
       THEN /\ wilaya_stats' = wilaya_agg(df)
            /\ rendered' = rendered \o <<Panel("Orders per Wilaya", "chart"),
                                         Panel("Revenue per Wilaya", "chart")>>
            /\ pc' = "top_returned"
       ELSE Raise("Orders & Revenue by Wilaya") /\ UNCHANGED wilaya_stats
    /\ UNCHANGED <<csv, strNA, df, kpis, hists, slow_orders, insights,
                   top_returns, hub_delays, risk_df>>

(* df[df['returned']]: a mask with a missing value raises ValueError *)
MaskFails(d) == \E i \in 1..Len(d) : d[i].returned = NaFlag

(* line 163: groupby(product_col).size() of the returned rows *)
returned_sizes(d) ==
    LET ret == SelectSeq(d, LAMBDA r : r.returned = True)
        keys == group_keys(Col(ret, LAMBDA r : r.product), ProductOrder)
    IN  [i \in 1..Len(keys) |->
            [product |-> keys[i],
             size |-> Len(group_rows(ret, LAMBDA r : r.product, keys[i]))]]

(* line 163: .sort_values(ascending=False).head(10) *)
top_returns_of(d) ==
    LET sizes == returned_sizes(d)
    IN  {head(Take(sizes, p), TopN) :
            p \in sort_values_desc(Col(sizes, LAMBDA g : <<g.size, 1>>))}

(* lines 152-166 *)
top_returned ==
    /\ pc = "top_returned"
    /\ IF get_product_col(csv.cols) = None
       THEN /\ rendered' = Append(rendered,
                                  Panel("Most Returned Products", "warning"))
            /\ pc' = "hub_delay"
            /\ UNCHANGED top_returns
       ELSE IF MaskFails(df)
       THEN Raise("Most Returned Products") /\ UNCHANGED top_returns
       ELSE /\ top_returns' \in top_returns_of(df)
            /\ rendered' = Append(rendered,
                                  Panel("Most Returned Products", "table"))
            /\ pc' = "hub_delay"
    /\ UNCHANGED <<csv, strNA, df, kpis, hists, slow_orders, insights,
                   wilaya_stats, hub_delays, risk_df>>

(* line 170 *)
hub_agg(d) ==
    LET keys == group_keys(Col(d, LAMBDA r : r.stopdesk_name), HubOrder)
        rows == [i \in 1..Len(keys) |->
                    [stopdesk_name |-> keys[i],
                     avg_delay |->
                         mean(Col(group_rows(d, LAMBDA r : r.stopdesk_name,
                                             keys[i]),
                                  LAMBDA r : r.delivery_delay_days))]]
    IN  {Take(rows, p) :
            p \in sort_values_desc(Col(rows, LAMBDA g : g.avg_delay))}

(* lines 168-171 *)
hub_delay ==
    /\ pc = "hub_delay"
    /\ IF "stopdesk_name" \in csv.cols
       THEN /\ hub_delays' \in hub_agg(df)
            /\ rendered' = Append(rendered, Panel("Avg Delay by Hub", "table"))
            /\ pc' = "cash_collection"
       ELSE Raise("Avg Delay by Hub") /\ UNCHANGED hub_delays
    /\ UNCHANGED <<csv, strNA, df, kpis, hists, slow_orders, insights,
                   wilaya_stats, top_returns, risk_df>>

(* lines 173-176 *)
cash_collection ==
    /\ pc = "cash_collection"
    /\ IF "to_wilaya_name" \in csv.cols
       THEN /\ rendered' = Append(rendered,
                                  Panel("Cash Collection by Wilaya", "table"))
            /\ pc' = "high_risk"
       ELSE Raise("Cash Collection by Wilaya")
    /\ UNCHANGED <<csv, strNA, df, kpis, hists, slow_orders, insights,
                   wilaya_stats, top_returns, hub_delays, risk_df>>

(* The filter with the threshold included *)
risk_query_ge(g) == g.orders >= RiskMinOrders

(* line 184: .query("orders > 10") *)
risk_query(g) == g.orders > RiskMinOrders

(* lines 180-183 *)
risk_agg(d) ==
    LET keys == group_keys(Col(d, LAMBDA r : r.to_wilaya_name), WilayaOrder)
    IN  [i \in 1..Len(keys) |->
            LET g == group_rows(d, LAMBDA r : r.to_wilaya_name, keys[i])
            IN  [to_wilaya_name |-> keys[i],
                 return_rate |-> flag_mean(Col(g, LAMBDA r : r.returned)),
                 rec_rate |-> mean(Col(g, LAMBDA r : r.has_recouvrement)),
                 orders |-> count(Col(g, LAMBDA r : r.order_id))]]

(* lines 180-184 *)
risk_df_of(d) ==
    LET kept == SelectSeq(risk_agg(d), risk_query)
    IN  {Take(kept, p) :
            p \in sort_values_desc(Col(kept, LAMBDA g : g.return_rate))}

(* lines 178-185 *)
high_risk ==
    /\ pc = "high_risk"
    /\ IF {"to_wilaya_name", "order_id"} \subseteq csv.cols
       THEN /\ risk_df' \in risk_df_of(df)
            /\ rendered' = Append(rendered, Panel("High-Risk Areas", "table"))
            /\ pc' = "orders_over_time"
       ELSE Raise("High-Risk Areas") /\ UNCHANGED risk_df
    /\ UNCHANGED <<csv, strNA, df, kpis, hists, slow_orders, insights,
                   wilaya_stats, top_returns, hub_delays>>

(* lines 187-192 *)
orders_over_time ==
    /\ pc = "orders_over_time"
    /\ rendered' = Append(rendered, Panel("Orders Over Time", "chart"))
    /\ pc' = "price_scatter"
    /\ UNCHANGED <<csv, strNA, df, kpis, hists, slow_orders, insights,
                   wilaya_stats, top_returns, hub_delays, risk_df>>

(* lines 194-204 *)
price_scatter ==
    /\ pc = "price_scatter"
    /\ rendered' = Append(rendered,
          Panel("Price vs. Declared Value",
                IF {"Prix du produit", "declared_value"} \subseteq csv.cols
                THEN "chart" ELSE "warning"))
    /\ pc' = "advanced"
    /\ UNCHANGED <<csv, strNA, df, kpis, hists, slow_orders, insights,
                   wilaya_stats, top_returns, hub_delays, risk_df>>

(* lines 213-216: more than 20% of a column missing *)
MissingWarning(d, F(_), name) ==
    LET col == Col(d, F)
    IN  IF 5 * (Len(col) - Len(dropna(col))) > Len(col)
        THEN <<Panel(name, "warning")>> ELSE <<>>

(* lines 225-228 *)
time_cols_2(d) ==
    <<Hist("processing_time_days",
           dropna(Col(d, LAMBDA r : r.processing_time_days))),
      Hist("delivery_delay_days",
           dropna(Col(d, LAMBDA r : r.delivery_delay_days)))>>

(* lines 206-234 *)
advanced ==
    /\ pc = "advanced"
    /\ kpis' = [kpis EXCEPT
          !.avg_processing = mean(Col(df, LAMBDA r : r.processing_time_days)),
          !.avg_delay = mean(Col(df, LAMBDA r : r.delivery_delay_days))]
    /\ hists' = time_cols_2(df)
    /\ rendered' = rendered
          \o MissingWarning(df, LAMBDA r : r.processing_time_days,
                            "missing processing_time_days")
          \o MissingWarning(df, LAMBDA r : r.delivery_delay_days,
                            "missing delivery_delay_days")
          \o <<Panel("Time KPIs", "metrics")>>
          \o HistPanels(hists')
    /\ pc' = "bottlenecks_2"
    /\ UNCHANGED <<csv, strNA, df, slow_orders, insights,
                   wilaya_stats, top_returns, hub_delays, risk_df>>

(* line 238 *)
slow_orders_2(d) == top_by(d, LAMBDA r : r.delivery_delay_days)

(* lines 236-242: the projection raises KeyError on an absent column *)
bottlenecks_2 ==
    /\ pc = "bottlenecks_2"
    /\ slow_orders' \in slow_orders_2(df)
    /\ IF {"order_id", "from_wilaya_name", "to_wilaya_name"} \subseteq csv.cols
       THEN /\ rendered' = Append(rendered,
                                  Panel("Bottlenecks & Delays 2", "table"))
            /\ pc' = "insights_2"
       ELSE Raise("Bottlenecks & Delays 2")
    /\ UNCHANGED <<csv, strNA, df, kpis, hists, insights,
                   wilaya_stats, top_returns, hub_delays, risk_df>>

(* lines 244-254 *)
insights_2 ==
    /\ pc = "insights_2"
    /\ insights' = compute_insights(df)
    /\ rendered' = Append(rendered, Panel("Insights 2", "text"))
    /\ pc' = "done"
    /\ UNCHANGED <<csv, strNA, df, kpis, hists, slow_orders,
                   wilaya_stats, top_returns, hub_delays, risk_df>>

Next ==
    \/ load_data
    \/ global_kpis
    \/ time_distributions
    \/ bottlenecks
    \/ insights_1
    \/ revenue_kpis
    \/ orders_by_wilaya
    \/ top_returned
    \/ hub_delay
    \/ cash_collection
    \/ high_risk
    \/ orders_over_time
    \/ price_scatter
    \/ advanced
    \/ bottlenecks_2
    \/ insights_2

Spec == Init /\ [][Next]_vars

----------------------------------------------------------------------------
(* Properties *)

Rendered(name) == \E i \in 1..Len(rendered) : rendered[i].panel = name
RenderedAs(name, kind) ==
    \E i \in 1..Len(rendered) : rendered[i] = Panel(name, kind)
Failed == \E i \in 1..Len(rendered) : rendered[i].kind = "exception"
Loaded == pc # "load_data" /\ ~Rendered("load_data")
Rows == 1..Len(df)

RECURSIVE SetSum(_, _)
SetSum(S, f) ==
    IF S = {} THEN 0
    ELSE LET x == CHOOSE y \in S : TRUE IN f[x] + SetSum(S \ {x}, f)

(* What the CSV says, read without the program's conversions *)
Parsable(c) == c.txt = "ts" /\ c.h >= 0 /\ c.h < 24 /\ c.d >= 0
Hours(c) == 24 * c.d + c.h
CommandeCell(i) ==
    IF ColCommande \in csv.cols THEN csv.rows[i].commande ELSE NoDate

(* v is the whole-day difference later - earlier of two cells: missing     *)
(* when a cell is missing or unparsable, else the floor of the difference  *)
IsDayDiff(v, later, earlier) ==
    IF Parsable(later) /\ Parsable(earlier)
    THEN /\ v # NaN
         /\ 24 * v <= Hours(later) - Hours(earlier)
         /\ Hours(later) - Hours(earlier) < 24 * (v + 1)
    ELSE v = NaN

(* C1: every derived day-difference of a loaded record is missing when an  *)
(* endpoint timestamp is missing or unparsable (never zero), and otherwise *)
(* it is the whole-day difference of the two timestamps, negative when     *)
(* they are inverted.                                                      *)
C1_DayDifferences ==
    Loaded =>
      \A i \in Rows :
        LET r == csv.rows[i] IN
        /\ IsDayDiff(df[i].processing_time_days,
                     r.date_expedition, r.date_creation)
        /\ IsDayDiff(df[i].delivery_delay_days,
                     r.date_last_status, r.date_expedition)
        /\ IsDayDiff(df[i].commande_to_creation_days,
                     r.date_creation, CommandeCell(i))
        /\ IsDayDiff(df[i].commande_to_expedition_days,
                     r.date_expedition, CommandeCell(i))
        /\ IsDayDiff(df[i].commande_to_last_status_days,
                     r.date_last_status, CommandeCell(i))

C1_Witness ==
    /\ Loaded
    /\ \E i \in Rows :
         /\ df[i].processing_time_days # NaN
         /\ df[i].processing_time_days < 0
         /\ df[i].delivery_delay_days = NaN
         /\ csv.rows[i].date_last_status = NoDate

(* Whether the status text of record i contains a token, any case *)
HasToken(i, tok) ==
    LET s == csv.rows[i].last_status IN
    /\ s # NoText
    /\ \E a \in 1..Len(s) :
         /\ a + Len(tok) - 1 <= Len(s)
         /\ \A k \in 1..Len(tok) : LowerChar(s[a + k - 1]) = tok[k]

(* C2: delivered and returned are booleans, each true iff the lower-cased  *)
(* status contains its token, independently; a record without status text  *)
(* has both false.                                                         *)
C2_Flags ==
    Loaded =>
      \A i \in Rows :
        /\ df[i].delivered \in {True, False}
        /\ df[i].returned \in {True, False}
        /\ df[i].delivered = True <=> HasToken(i, TokDelivered)
        /\ df[i].returned = True <=> HasToken(i, TokReturned)

(* C3: success_revenue is the revenue of a delivered record and 0          *)
(* otherwise, lost_revenue the revenue of a returned record and 0          *)
(* otherwise, revenue being the order total with missing as 0; so with     *)
(* exactly one flag set the two sum to the revenue, with both to twice it. *)
C3_RevenueSplit ==
    Loaded =>
      \A i \in Rows :
        LET m == csv.rows[i].montant
            rev == IF m = NaN THEN 0 ELSE m
            d == HasToken(i, TokDelivered)
            t == HasToken(i, TokReturned)
        IN  /\ df[i].revenue = rev
            /\ df[i].success_revenue = (IF d THEN rev ELSE 0)
            /\ df[i].lost_revenue = (IF t THEN rev ELSE 0)
            /\ (d /\ ~t) =>
                 /\ df[i].success_revenue + df[i].lost_revenue = rev
                 /\ df[i].lost_revenue = 0
            /\ (t /\ ~d) =>
                 /\ df[i].success_revenue + df[i].lost_revenue = rev
                 /\ df[i].success_revenue = 0
            /\ (d /\ t) =>
                 df[i].success_revenue + df[i].lost_revenue = 2 * rev

C3_Witness ==
    /\ Loaded
    /\ \E i, j \in Rows :
         /\ df[i].delivered = True /\ df[i].returned = True
         /\ df[i].success_revenue + df[i].lost_revenue = 1000
         /\ df[j].delivered = False /\ df[j].returned = True
         /\ df[j].success_revenue = 0 /\ df[j].lost_revenue = 500

(* C4: the per-group order counts of wilaya_stats sum to the number of     *)
(* records of the table.                                                   *)
C4_CountsSumToTotal ==
    Rendered("Orders per Wilaya") =>
      SumSeq(Col(wilaya_stats, LAMBDA g : g.orders)) = Len(df)

(* The column the slow-orders table in slow_orders was sorted by *)
SlowKey(r) ==
    IF ColTotalFulfil \in csv.cols /\ ~Rendered("Bottlenecks & Delays 2")
    THEN NumKey(r.total_fulfillment_days)
    ELSE NumKey(r.delivery_delay_days)

SizeKey(g) == <<g.size, 1>>

(* C5 as stated: each Top-10 report is the first ten rows of a stable      *)
(* descending sort: at most 10 rows, non-increasing metric, ties in input  *)
(* order.                                                                  *)
C5_StableTopTen ==
    /\ Rendered("Bottlenecks & Delays") =>
         slow_orders = head(Take(df, stable_sort_desc(Col(df, SlowKey))), TopN)
    /\ RenderedAs("Most Returned Products", "table") =>
         top_returns =
           head(Take(returned_sizes(df),
                     stable_sort_desc(Col(returned_sizes(df), SizeKey))), TopN)

(* s holds min(10, n) of the n rows of all, those with a metric first and  *)
(* in non-increasing order of it, and no row left out has a larger metric  *)
(* than a row of s                                                         *)
IsTopTen(s, all, K(_)) ==
    /\ Len(s) = (IF Len(all) < 10 THEN Len(all) ELSE 10)
    /\ \A i \in 1..Len(s) : \E j \in 1..Len(all) : s[i] = all[j]
    /\ \A i, j \in 1..Len(s) :
         i < j =>
           \/ IsNanMean(K(s[j]))
           \/ ~IsNanMean(K(s[i])) /\ MeanGe(K(s[i]), K(s[j]))
    /\ \A j \in 1..Len(all) :
         (\A i \in 1..Len(s) : s[i] # all[j]) =>
           \A i \in 1..Len(s) :
             \/ IsNanMean(K(all[j]))
             \/ ~IsNanMean(K(s[i])) /\ MeanGe(K(s[i]), K(all[j]))

(* The returned records per product, counted from the table *)
ReturnedCount(prod) ==
    Cardinality({i \in Rows : df[i].product = prod /\ df[i].returned = True})

ReturnedProducts ==
    [i \in 1..Len(returned_sizes(df)) |->
        [product |-> returned_sizes(df)[i].product,
         size |-> ReturnedCount(returned_sizes(df)[i].product)]]

(* C5, amended: each Top-10 report has min(10, n) rows, the rows with a    *)
(* metric in non-increasing order of it and before the rows without one,   *)
(* and no omitted row has a larger metric than a selected one; the order   *)
(* among rows of equal metric is not fixed.                                *)
C5_TopTen ==
    /\ Rendered("Bottlenecks & Delays") => IsTopTen(slow_orders, df, SlowKey)
    /\ RenderedAs("Most Returned Products", "table") =>
         IsTopTen(top_returns, ReturnedProducts, SizeKey)

C5_Witness ==
    /\ pc = "done"
    /\ Len(df) > 10
    /\ Len(slow_orders) = 10
    /\ slow_orders #
         head(Take(df, stable_sort_desc(Col(df, SlowKey))), TopN)
    /\ slow_orders[1].delivery_delay_days > slow_orders[10].delivery_delay_days

(* The orders with an id per destination region, counted from the table *)
OrdersOf(w) ==
    Cardinality({i \in Rows :
                    df[i].to_wilaya_name = w /\ df[i].order_id # None})

Wilayas == {WilayaOrder[i] : i \in 1..Len(WilayaOrder)}

(* C6: the high-risk report holds exactly the destination regions with     *)
(* more than 10 orders, in non-increasing order of return rate.            *)
C6_HighRisk ==
    Rendered("High-Risk Areas") =>
      /\ \A i \in 1..Len(risk_df) :
           /\ risk_df[i].orders > 10
           /\ risk_df[i].orders = OrdersOf(risk_df[i].to_wilaya_name)
      /\ \A w \in Wilayas :
           OrdersOf(w) > 10 =>
             \E i \in 1..Len(risk_df) : risk_df[i].to_wilaya_name = w
      /\ \A i, j \in 1..Len(risk_df) :
           (i < j /\ ~IsNanMean(risk_df[i].return_rate)
                  /\ ~IsNanMean(risk_df[j].return_rate)) =>
             risk_df[i].return_rate[1] * risk_df[j].return_rate[2]
               >= risk_df[j].return_rate[1] * risk_df[i].return_rate[2]

C6_Witness ==
    /\ Rendered("High-Risk Areas")
    /\ Len(risk_df) = 1
    /\ risk_df[1].orders = 11
    /\ \E w \in Wilayas : OrdersOf(w) = 10

(* The mean of a derived column exceeds t: there are values, and their sum *)
(* exceeds t times their number                                            *)
MeanExceeds(f, t) ==
    LET S == {i \in Rows : f[i] # NaN}
    IN  S # {} /\ SetSum(S, f) > t * Cardinality(S)

SlowProcessing ==
    MeanExceeds([i \in Rows |-> df[i].processing_time_days], 1)
SlowShipping ==
    MeanExceeds([i \in Rows |-> df[i].delivery_delay_days], 2)

InList(x, l) == \E i \in 1..Len(l) : l[i] = x

(* C7: the insight list is never empty; it has the processing advisory iff *)
(* the mean processing time exceeds 1 and the shipping advisory iff the    *)
(* mean delivery delay exceeds 2, processing first; and the no-bottleneck  *)
(* text alone iff neither holds, also when a mean is undefined.            *)
C7_Insights ==
    Rendered("Insights") =>
      /\ insights # <<>>
      /\ InList(MsgProcessing, insights) <=> SlowProcessing
      /\ InList(MsgShipping, insights) <=> SlowShipping
      /\ InList(MsgNone, insights) <=> (~SlowProcessing /\ ~SlowShipping)
      /\ InList(MsgNone, insights) => insights = <<MsgNone>>
      /\ (SlowProcessing /\ SlowShipping) =>
           insights = <<MsgProcessing, MsgShipping>>
      /\ Len(insights) <= 2

C7_Witness ==
    /\ pc = "done"
    /\ insights = <<MsgProcessing, MsgShipping>>
    /\ SlowProcessing /\ SlowShipping
    /\ \E i \in Rows :
         df[i].delivery_delay_days > df[i].processing_time_days

(* C8: with an identifying column absent from the table the render never   *)
(* fails: the report that needs the column is replaced by an advisory and  *)
(* the script reaches its end.                                             *)
C8_MissingColumnSkipsReport ==
    (\E c \in IdCols : c \notin csv.cols) =>
      /\ ~Failed
      /\ pc # "aborted"

(* C9: total is the number of records, the success and return rates are    *)
(* the delivered and returned records over the total, and the mean delay   *)
(* is the sum of the non-missing delays over their number.                 *)
C9_GlobalKpis ==
    (Rendered("Global KPIs") /\ Len(df) > 0) =>
      LET nd == Cardinality({i \in Rows : HasToken(i, TokDelivered)})
          nr == Cardinality({i \in Rows : HasToken(i, TokReturned)})
          D == {i \in Rows : df[i].delivery_delay_days # NaN}
      IN  /\ kpis.total = Len(df)
          /\ kpis.success_rate[2] > 0
          /\ kpis.success_rate[1] * Len(df) = nd * kpis.success_rate[2]
          /\ kpis.return_rate[2] > 0
          /\ kpis.return_rate[1] * Len(df) = nr * kpis.return_rate[2]
          /\ kpis.avg_delay[2] = Cardinality(D)
          /\ kpis.avg_delay[1] =
               SetSum(D, [i \in Rows |-> df[i].delivery_delay_days])

(* C10: with the order placement column absent the table is loaded, every  *)
(* record's commande timestamp and its three commande_to_* differences are *)
(* missing, the other derived columns are what they are with the column    *)
(* present, and each of the three histograms is the notice.                *)
C10_NoCommandeColumn ==
    (ColCommande \notin csv.cols /\ pc # "load_data"
       /\ ~StrAccessorFails(csv.rows)) =>
      /\ Loaded
      /\ Len(df) = Len(csv.rows)
      /\ \A i \in Rows :
           /\ df[i].date_commande = NaT
           /\ df[i].commande_to_creation_days = NaN
           /\ df[i].commande_to_expedition_days = NaN
           /\ df[i].commande_to_last_status_days = NaN
           /\ IsDayDiff(df[i].processing_time_days,
                        csv.rows[i].date_expedition, csv.rows[i].date_creation)
           /\ IsDayDiff(df[i].delivery_delay_days,
                        csv.rows[i].date_last_status,
                        csv.rows[i].date_expedition)
           /\ df[i].delivered = True <=> HasToken(i, TokDelivered)
           /\ df[i].revenue = fillna(csv.rows[i].montant, 0)
      /\ Len(hists) = 5 =>
           \A k \in 3..5 :
             /\ hists[k].kind = "warning"
             /\ RenderedAs(hists[k].col, "warning")
             /\ ~RenderedAs(hists[k].col, "chart")

C10_Witness ==
    /\ ColCommande \notin csv.cols
    /\ Len(hists) = 5
    /\ hists[1].kind = "chart"
    /\ hists[3].kind = "warning"
    /\ \E i \in Rows :
         /\ csv.rows[i].commande = Ts(0, 0)
         /\ df[i].date_commande = NaT
         /\ df[i].processing_time_days # NaN

====
